---- MODULE Spec2Model ----
(***************************************************************************)
(* Model of the peer-to-peer link sharing service (src/lib/p2p-service.ts) *)
(* and of the screen that drives it (src/components/P2PSharing.tsx).       *)
(*                                                                         *)
(* The model has one P2PService (the singleton of one page).  The remote   *)
(* end of a connection is either another connection of the same service,  *)
(* reached through the signaling code (both ends of the channel then run  *)
(* this program), or a peer outside the model, which can put any text on  *)
(* the channel.  The transport (simple-peer over WebRTC) is the           *)
(* environment: it emits the signal, connect, data, close and error       *)
(* events that the service handles.                                       *)
(***************************************************************************)
EXTENDS Integers, Sequences, FiniteSets, TLC

(***************************************************************************)
(* Bounds                                                                  *)
(***************************************************************************)
MaxConns == 2
MaxTime == 1
MaxShares == 2
MaxLinks == 4

\* the functions a caller of the service registers as its handlers; the
\* P2PSharing screen registers its own
Handlers == {"h1"}
UiHandler == "ui"
NoHandler == "none"

(***************************************************************************)
(* JavaScript values.  Each kind of value is a record with its own field,  *)
(* so that values of different kinds are different and comparable.         *)
(***************************************************************************)
Undef == [undef |-> 0]
JNull == [null |-> 0]
Num(k) == [num |-> k]
Str(s) == [str |-> s]
\* the ISO-8601 text of the time value t (Date.prototype.toISOString)
Iso(t) == [iso |-> t]
DateV(t) == [date |-> t]
InvalidDate == [baddate |-> 0]
\* the session description produced by the transport of peer p
Sdp(p) == [sdp |-> p]
Obj(f) == [obj |-> f]

IsObj(v) == DOMAIN v = {"obj"}
IsDate(v) == DOMAIN v = {"date"}

\* property read v.name: undefined for a field that is absent and for a
\* primitive; reading a property of null or undefined throws a TypeError
Throws(v) == v = JNull \/ v = Undef
Get(v, name) ==
  IF IsObj(v) /\ name \in DOMAIN v.obj THEN v.obj[name] ELSE Undef

\* JavaScript truthiness of the values the model uses
Truthy(v) ==
  /\ v # Undef
  /\ v # JNull
  /\ v # Num(0)
  /\ v # Str("")

\* object spread {...a, then the fields of b}: a primitive spreads nothing
Fields(v) == IF IsObj(v) THEN v.obj ELSE << >>
Spread(a, b) ==
  Obj([n \in DOMAIN Fields(a) \cup DOMAIN b |->
        IF n \in DOMAIN b THEN b[n] ELSE Fields(a)[n]])

(***************************************************************************)
(* JSON.  A text is either the serialization of a value or not JSON at     *)
(* all.  Stringify drops undefined fields and writes a Date as its ISO     *)
(* text (null for an invalid Date), so the value that Parse gives back is  *)
(* not in general the value that was written.                              *)
(***************************************************************************)
Garbage == [garbage |-> 0]

RECURSIVE ToJSON(_)
ToJSON(v) ==
  IF IsObj(v)
  THEN LET keep == {n \in DOMAIN v.obj : v.obj[n] # Undef}
       IN  Obj([n \in keep |-> ToJSON(v.obj[n])])
  ELSE IF IsDate(v) THEN Iso(v.date)
  ELSE IF v = InvalidDate THEN JNull
  ELSE v

JSONStringify(v) == [text |-> ToJSON(v)]
ParseThrows(t) == DOMAIN t # {"text"}
JSONParse(t) == t.text

\* new Date(v): an ISO text is parsed; a number is epoch milliseconds; null
\* is the epoch; undefined and any other text give an invalid Date
NewDate(v) ==
  IF DOMAIN v = {"iso"} THEN DateV(v.iso)
  ELSE IF DOMAIN v = {"num"} THEN DateV(v.num)
  ELSE IF v = JNull THEN DateV(0)
  ELSE IF IsDate(v) THEN v
  ELSE InvalidDate

\* Date.prototype.toISOString throws a RangeError on an invalid Date
ToISOStringThrows(d) == ~IsDate(d)
ToISOString(d) == Iso(d.date)

(***************************************************************************)
(* Link records                                                            *)
(***************************************************************************)
Link1 ==
  Obj([id |-> Str("a"), originalUrl |-> Str("https://a"), shortUrl |-> Str("sa"),
       title |-> Str("A"), expiresAt |-> DateV(5), createdAt |-> DateV(0),
       clicks |-> Num(0)])
Link2 ==
  Obj([id |-> Str("b"), originalUrl |-> Str("https://b"), shortUrl |-> Str("sb"),
       title |-> Str("B"), description |-> Str("about b"),
       expiresAt |-> DateV(7), createdAt |-> DateV(1), clicks |-> Num(3),
       sharedBy |-> Str("alice")])
Links == {Link1, Link2}

(***************************************************************************)
(* State                                                                   *)
(***************************************************************************)
VARIABLES
  connections,               \* the Map, as its entries in insertion order
  linkHandler,               \* the onLinkReceived field
  statusHandler,             \* the onConnectionStatusChange field
  peers,                     \* the SimplePeer instances ever constructed, by id
  inbox,                     \* per peer: texts sent to it and not yet delivered
  uiConnections,             \* the connections state of the P2PSharing screen
  isP2PSupported,            \* the isP2PSupported state of the P2PSharing screen
  sent,                      \* per peer: the links it sent to a peer of this program, in order
  delivered,                 \* per peer: the links its data handler got from this program, in order
  notified,                  \* per peer: the status-change invocations for its id
  page,                      \* the Index page: its links state and its pending createLink
  lastOp                     \* the operation or event of the last step, with its result

vars ==
  << connections, linkHandler, statusHandler, peers, inbox, uiConnections,
     isP2PSupported, sent, delivered, notified, page, lastOp >>

\* values of peers[p].remote besides the id of the remote peer
NoRemote == 0
Foreign == -1

PeerIds == 1..Len(peers)

\* Map.has / Map.get / Map.delete / Map.clear, and the update of one field
\* of the entry stored under id
Has(m, id) == \E i \in 1..Len(m) : m[i].id = id
Conn(m, id) == m[CHOOSE i \in 1..Len(m) : m[i].id = id]
MapDelete_Keep(m, id) == m
MapDelete(m, id) == SelectSeq(m, LAMBDA c : c.id # id)
MapClear_Keep(m) == m
MapClear(m) == << >>
MapUpdate(m, id, field, val) ==
  [i \in 1..Len(m) |-> IF m[i].id = id THEN [m[i] EXCEPT ![field] = val] ELSE m[i]]

\* what lastOp records of an operation: its name, the id it was called
\* with and its result; of an event: its name, its peer, the handler that was
\* invoked (none: no handler was invoked) and, for a data event, the text
Op(name, id, ret) == [op |-> name, id |-> id, ret |-> ret, data |-> Undef]
Event(name, p, handler) == [op |-> name, id |-> p, ret |-> handler, data |-> Undef]
DataEvent(p, handler, text) == [op |-> "data", id |-> p, ret |-> handler, data |-> text]
\* of an action of the screen: its name, the id, how it ended and the text it read
UiOp(name, id, ret, text) == [op |-> name, id |-> id, ret |-> ret, data |-> text]

\* Math.random ids: an id never used before (collisions are excluded)
generateConnectionId_Reuse == IF Len(peers) = 0 THEN 1 ELSE Len(peers)
generateConnectionId == Len(peers) + 1

NewPeer(initiator) ==
  [initiator |-> initiator, alive |-> TRUE, signalled |-> FALSE,
   remote |-> NoRemote, chan |-> "none", failed |-> FALSE]

NewConnection_Connected(id, initiator, remoteId) ==
  [id |-> id, isConnected |-> TRUE, isInitiator |-> initiator,
   remoteId |-> remoteId, connectionCode |-> Undef]
NewConnection(id, initiator, remoteId) ==
  [id |-> id, isConnected |-> FALSE, isInitiator |-> initiator,
   remoteId |-> remoteId, connectionCode |-> Undef]

\* the Index page before any link is made: links is the links state (link
\* ids, newest first); isCreating is set while a createLink waits for its
\* request, and captured is the links value that call closed over; made
\* counts the links created and deleted collects the ids deleteLink removed
NewPage == [links |-> << >>, isCreating |-> FALSE, captured |-> << >>,
            made |-> 0, deleted |-> {}]

Init ==
  /\ page = NewPage
  /\ connections = << >>
  /\ linkHandler = NoHandler
  /\ statusHandler = NoHandler
  /\ peers = << >>
  /\ inbox = << >>
  /\ uiConnections = << >>
  /\ isP2PSupported = "null"
  /\ sent = << >>
  /\ delivered = << >>
  /\ notified = << >>
  /\ lastOp = Op("init", 0, "void")

(***************************************************************************)
(* The transport: what simple-peer does when the service calls it          *)
(***************************************************************************)
\* peer.destroy(): the peer is torn down, its channel and its connection
\* are closed and released (a no-op on a destroyed peer); its close event is
\* emitted from the microtask that follows
PeerDestroy_Zombie(ps, p) == ps
PeerDestroy(ps, p) ==
  [ps EXCEPT ![p] = [initiator |-> ps[p].initiator, alive |-> FALSE,
                     signalled |-> FALSE, remote |-> NoRemote, chan |-> "closed",
                     failed |-> FALSE]]

\* peer.send(text) throws on a destroyed peer and on a channel that is not open
PeerSendThrows_Never(p) == FALSE
PeerSendThrows(p) == ~peers[p].alive \/ peers[p].chan # "open"
PeerSend_Front(p, text) ==
  LET r == peers[p].remote
  IN  IF r \in PeerIds /\ peers[r].alive
      THEN [inbox EXCEPT ![r] = << text >> \o @]
      ELSE inbox
PeerSend_Twice(p, text) ==
  LET r == peers[p].remote
  IN  IF r \in PeerIds /\ peers[r].alive
      THEN [inbox EXCEPT ![r] = Append(Append(@, text), text)]
      ELSE inbox
PeerSend(p, text) ==
  LET r == peers[p].remote
  IN  IF r \in PeerIds /\ peers[r].alive
      THEN [inbox EXCEPT ![r] = Append(@, text)]
      ELSE inbox

\* the negotiation payloads the transport emits: an offer from an initiator,
\* an answer from a responder
LocalSignal(p) ==
  Obj([type |-> Str(IF peers[p].initiator THEN "offer" ELSE "answer"), sdp |-> Sdp(p)])
ForeignOffer == Obj([type |-> Str("offer"), sdp |-> Sdp(Foreign)])
ForeignAnswer == Obj([type |-> Str("answer"), sdp |-> Sdp(Foreign)])

\* peer.signal(data) reads data.renegotiate first: a TypeError on null
SignalThrows(data) == Throws(data)
\* data without sdp (nor candidate, renegotiate, transceiverRequest):
\* ERR_SIGNALING, the peer destroys itself
SignalInvalid(data) == ~Truthy(Get(data, "sdp"))
\* the remote description a peer accepts: an offer for a responder, an answer
\* for an initiator, once; anything else fails setRemoteDescription
SignalAccepted(ps, p, data) ==
  /\ ps[p].remote = NoRemote
  /\ ~ps[p].failed
  /\ Get(data, "type") = Str(IF ps[p].initiator THEN "answer" ELSE "offer")
\* peer.signal(data) with data that has an sdp: the remote description is
\* set, or the peer fails and will emit its error
PeerSignal(ps, p, data) ==
  IF SignalAccepted(ps, p, data)
  THEN [ps EXCEPT ![p].remote = Get(data, "sdp").sdp]
  ELSE [ps EXCEPT ![p].failed = TRUE]

\* both descriptions are in place on both sides of the channel
Negotiated(p) ==
  LET r == peers[p].remote
  IN  /\ peers[p].signalled
      /\ ~peers[p].failed
      /\ \/ r = Foreign
         \/ /\ r \in PeerIds
            /\ peers[r].alive
            /\ peers[r].signalled
            /\ ~peers[r].failed
            /\ peers[r].remote = p

(***************************************************************************)
(* setupPeerEventHandlers: the handlers, as the change each makes          *)
(***************************************************************************)
\* a status subscriber that calls closeConnection(id) from inside the
\* (id, false) notification
ClosingHandler == "closing"
\* the map once this.onConnectionStatusChange?.(id, false) has returned: m0
\* is the map the close handler found, m the map it left; the re-entrant
\* closeConnection(id) destroys a peer that is already destroyed and
\* deletes the entry
ReenterClose_Skip(m0, m, id) == m
ReenterClose(m0, m, id) ==
  IF Has(m0, id) /\ statusHandler = ClosingHandler THEN MapDelete(m, id) ELSE m

\* this.onConnectionStatusChange?.(id, isConnected): the handler invoked
StatusInvoked(m, id) == IF Has(m, id) THEN statusHandler ELSE NoHandler
NotifyStatus(log, id, isConnected) ==
  IF statusHandler # NoHandler
  THEN [log EXCEPT ![id] = Append(@, isConnected)]
  ELSE log

\* the status handler of the P2PSharing screen: setConnections(prev.map(...))
UiOnStatus(ui, id, isConnected) ==
  [i \in 1..Len(ui) |->
     IF ui[i].id = id THEN [ui[i] EXCEPT !.isConnected = isConnected] ELSE ui[i]]
\* the screen's list after this.onConnectionStatusChange?.(id, isConnected)
OnStatusUi(m, ui, id, isConnected) ==
  IF Has(m, id) /\ statusHandler = UiHandler THEN UiOnStatus(ui, id, isConnected) ELSE ui

\* the signal handler, run on the map m
OnSignalConns(m, id, data) == MapUpdate(m, id, "connectionCode", JSONStringify(data))

\* the connect handler
OnConnectConns_ClearCode(m, id) ==
  MapUpdate(MapUpdate(m, id, "isConnected", TRUE), id, "connectionCode", Undef)
OnConnectConns(m, id) == MapUpdate(m, id, "isConnected", TRUE)
OnConnectLog_Twice(m, log, id) ==
  IF Has(m, id) THEN NotifyStatus(NotifyStatus(log, id, TRUE), id, TRUE) ELSE log
OnConnectLog(m, log, id) == IF Has(m, id) THEN NotifyStatus(log, id, TRUE) ELSE log

\* the close handler
OnCloseConns_Stale(m, id) == m
OnCloseConns_All(m, id) == [i \in 1..Len(m) |-> [m[i] EXCEPT !.isConnected = FALSE]]
OnCloseConns(m, id) == MapUpdate(m, id, "isConnected", FALSE)
OnCloseLog_Silent(m, log, id) == log
OnCloseLog(m, log, id) == IF Has(m, id) THEN NotifyStatus(log, id, FALSE) ELSE log

\* the link the data handler builds from message.link
ReviveLink(mlink) ==
  Spread(mlink, [expiresAt |-> NewDate(Get(mlink, "expiresAt")),
                 createdAt |-> NewDate(Get(mlink, "createdAt"))])

\* the data handler on one received text: whether it builds a link (the
\* text parses, message.type is "link-share" and message.link is truthy)
AcceptsData(data) ==
  /\ ~ParseThrows(data)
  /\ ~Throws(JSONParse(data))
  /\ Get(JSONParse(data), "type") = Str("link-share")
  /\ Truthy(Get(JSONParse(data), "link"))
\* this.onLinkReceived?.(link): the handler invoked, and with what
LinkInvoked_Never(data) == NoHandler
LinkInvoked(data) == IF AcceptsData(data) THEN linkHandler ELSE NoHandler
OnDataLog(log, p, data) ==
  IF AcceptsData(data)
  THEN [log EXCEPT ![p] = Append(@, [heard |-> linkHandler # NoHandler,
                                     link |-> ReviveLink(Get(JSONParse(data), "link"))])]
  ELSE log

\* peer.on('signal')
PeerOnSignal(p) ==
  /\ p \in PeerIds
  /\ peers[p].alive
  /\ ~peers[p].signalled
  /\ ~peers[p].failed
  /\ peers[p].initiator \/ peers[p].remote # NoRemote
  /\ peers' = [peers EXCEPT ![p].signalled = TRUE]
  /\ connections' = OnSignalConns(connections, p, LocalSignal(p))
  /\ lastOp' = Event("signal", p, NoHandler)
  /\ UNCHANGED << linkHandler, statusHandler, inbox, uiConnections, isP2PSupported, sent,
                  delivered, notified >>
  /\ UNCHANGED page

\* peer.on('connect')
PeerOnConnect(p) ==
  /\ p \in PeerIds
  /\ peers[p].alive
  /\ peers[p].chan = "none"
  /\ Negotiated(p)
  /\ peers' = [peers EXCEPT ![p].chan = "open"]
  /\ connections' = OnConnectConns(connections, p)
  /\ notified' = OnConnectLog(connections, notified, p)
  /\ uiConnections' = OnStatusUi(connections, uiConnections, p, TRUE)
  /\ lastOp' = Event("connect", p, StatusInvoked(connections, p))
  /\ UNCHANGED << linkHandler, statusHandler, inbox, isP2PSupported, sent, delivered >>
  /\ UNCHANGED page

\* peer.on('data')
PeerOnData(p) ==
  /\ p \in PeerIds
  /\ peers[p].alive
  /\ peers[p].chan = "open"
  /\ inbox[p] # << >>
  /\ inbox' = [inbox EXCEPT ![p] = Tail(@)]
  /\ delivered' = OnDataLog(delivered, p, Head(inbox[p]))
  /\ lastOp' = DataEvent(p, LinkInvoked(Head(inbox[p])), Head(inbox[p]))
  /\ UNCHANGED << connections, linkHandler, statusHandler, peers,
                  uiConnections, isP2PSupported, sent, notified >>
  /\ UNCHANGED page

\* the channel goes down under an open connection (the remote side closed
\* it, or the network failed); the peer has not reported it yet
TransportDrop(p) ==
  /\ p \in PeerIds
  /\ peers[p].alive
  /\ peers[p].chan = "open"
  /\ peers' = [peers EXCEPT ![p].chan = "closed"]
  /\ lastOp' = Event("drop", p, NoHandler)
  /\ UNCHANGED << connections, linkHandler, statusHandler, inbox,
                  uiConnections, isP2PSupported, sent, delivered, notified >>
  /\ UNCHANGED page

\* peer.on('close'), after the transport found the channel closed
PeerOnClose(p) ==
  /\ p \in PeerIds
  /\ peers[p].alive
  /\ peers[p].chan = "closed"
  /\ peers' = PeerDestroy(peers, p)
  /\ connections' = ReenterClose(connections, OnCloseConns(connections, p), p)
  /\ notified' = OnCloseLog(connections, notified, p)
  /\ uiConnections' = OnStatusUi(connections, uiConnections, p, FALSE)
  /\ lastOp' = Event("close", p, StatusInvoked(connections, p))
  /\ UNCHANGED << linkHandler, statusHandler, inbox, isP2PSupported, sent, delivered >>
  /\ UNCHANGED page

\* peer.on('error'): the handler only logs; simple-peer destroys the peer on
\* every error it emits, so the close handler runs right after it
PeerOnError(p) ==
  /\ p \in PeerIds
  /\ peers[p].alive
  /\ peers' = PeerDestroy(peers, p)
  /\ connections' = ReenterClose(connections, OnCloseConns(connections, p), p)
  /\ notified' = OnCloseLog(connections, notified, p)
  /\ uiConnections' = OnStatusUi(connections, uiConnections, p, FALSE)
  /\ lastOp' = Event("error", p, StatusInvoked(connections, p))
  /\ UNCHANGED << linkHandler, statusHandler, inbox, isP2PSupported, sent, delivered >>
  /\ UNCHANGED page

(***************************************************************************)
(* The operations of P2PService                                            *)
(***************************************************************************)
\* the values a caller can pass as signaling data: what JSON.parse gives for
\* the code of any peer that has emitted one, a payload of a peer outside
\* the model, and values that are not negotiation payloads
SignalInputs ==
  {JSONParse(JSONStringify(LocalSignal(q))) : q \in {r \in PeerIds : peers[r].signalled}}
    \cup {ForeignOffer, ForeignAnswer, JNull, Num(5), Obj([type |-> Str("offer")])}

\* the microtask after peer.destroy(): the close handler of peer p runs on
\* the map m if the call destroyed a live peer
AfterDestroyConns(m, p, wasAlive) ==
  IF wasAlive THEN ReenterClose(m, OnCloseConns(m, p), p) ELSE m
AfterDestroyLog(m, log, p, wasAlive) == IF wasAlive THEN OnCloseLog(m, log, p) ELSE log
AfterDestroyUi(m, ui, p, wasAlive) == IF wasAlive THEN OnStatusUi(m, ui, p, FALSE) ELSE ui

\* the service's part of createConnection()
CreateEffect ==
  LET id == generateConnectionId
  IN  /\ peers' = Append(peers, NewPeer(TRUE))
      /\ inbox' = Append(inbox, << >>)
      /\ sent' = Append(sent, << >>)
      /\ delivered' = Append(delivered, << >>)
      /\ notified' = Append(notified, << >>)
      /\ connections' = Append(connections, NewConnection(id, TRUE, Undef))

createConnection ==
  /\ Len(peers) < MaxConns
  /\ CreateEffect
  /\ lastOp' = Op("createConnection", generateConnectionId, "connection")
  /\ UNCHANGED << linkHandler, statusHandler, uiConnections, isP2PSupported >>
  /\ UNCHANGED page

\* signalingData.id throws on null, before anything is stored
JoinThrows(data) == Throws(data)
\* the map once joinConnection(data) has stored the new connection
JoinStored_Front(m, id, data) ==
  << NewConnection(id, FALSE, Get(data, "id")) >> \o m
JoinStored(m, id, data) == Append(m, NewConnection(id, FALSE, Get(data, "id")))

\* the service's part of joinConnection(data), for data that does not throw;
\* ui is the screen's list when the call returns
JoinEffect(data, ui) ==
  LET id == generateConnectionId
      ps == Append(peers, NewPeer(FALSE))
      stored == JoinStored(connections, id, data)
  IN  /\ inbox' = Append(inbox, << >>)
      /\ sent' = Append(sent, << >>)
      /\ delivered' = Append(delivered, << >>)
      /\ IF SignalInvalid(data)
         THEN /\ peers' = PeerDestroy(ps, id)
              /\ connections' = AfterDestroyConns(stored, id, TRUE)
              /\ notified' = AfterDestroyLog(stored, Append(notified, << >>), id, TRUE)
              /\ uiConnections' = AfterDestroyUi(stored, ui, id, TRUE)
         ELSE /\ peers' = PeerSignal(ps, id, data)
              /\ connections' = stored
              /\ notified' = Append(notified, << >>)
              /\ uiConnections' = ui

joinConnection(data) ==
  /\ Len(peers) < MaxConns
  /\ IF JoinThrows(data)
     THEN /\ lastOp' = Op("joinConnection", 0, "throw")
          /\ UNCHANGED << connections, peers, inbox, sent, delivered, notified,
                          uiConnections >>
     ELSE /\ lastOp' = Op("joinConnection", generateConnectionId, "connection")
          /\ JoinEffect(data, uiConnections)
  /\ UNCHANGED << linkHandler, statusHandler, isP2PSupported >>
  /\ UNCHANGED page

\* a caller hands the remote answer to the transport of a connection it got
\* from createConnection: connection.peer.signal(data).  The service has no
\* operation that does this.
signalPeer(p, data) ==
  /\ p \in PeerIds
  /\ peers[p].initiator
  /\ peers[p].alive
  /\ Has(connections, p)
  /\ IF SignalThrows(data)
     THEN /\ lastOp' = Op("peer.signal", p, "throw")
          /\ UNCHANGED << peers, connections, notified, uiConnections >>
     ELSE /\ lastOp' = Op("peer.signal", p, "void")
          /\ IF SignalInvalid(data)
             THEN /\ peers' = PeerDestroy(peers, p)
                  /\ connections' = AfterDestroyConns(connections, p, TRUE)
                  /\ notified' = AfterDestroyLog(connections, notified, p, TRUE)
                  /\ uiConnections' = AfterDestroyUi(connections, uiConnections, p, TRUE)
             ELSE /\ peers' = PeerSignal(peers, p, data)
                  /\ UNCHANGED << connections, notified, uiConnections >>
  /\ UNCHANGED << linkHandler, statusHandler, inbox, isP2PSupported, sent, delivered >>
  /\ UNCHANGED page

\* the values new Date() can give when shareLink runs
Times == 1..MaxTime

\* the envelope shareLink builds for a link when the clock reads t
Envelope(link, t) ==
  Obj([type |-> Str("link-share"),
       link |-> Spread(link, [sharedBy |-> Str("peer"),
                              createdAt |-> ToISOString(DateV(t)),
                              expiresAt |-> ToISOString(Get(link, "expiresAt"))])])

\* the guard of shareLink: the connection exists and is connected
CanShare(m, id) == Has(m, id) /\ Conn(m, id).isConnected

\* what shareLink(id, link) does: returns false, throws, or sends and
\* returns true
ShareResult(id, link) ==
  IF ~CanShare(connections, id) THEN "false"
  ELSE IF ToISOStringThrows(Get(link, "expiresAt")) \/ PeerSendThrows(id) THEN "throw"
  ELSE "true"

RECURSIVE SumLen(_, _)
SumLen(q, n) == IF n = 0 THEN 0 ELSE Len(q[n]) + SumLen(q, n - 1)
\* the links sent so far to peers of this program
ShareCount == SumLen(sent, Len(sent))

\* the service's part of shareLink(id, link) when the clock reads t
ShareEffect(id, link, t) ==
  IF ShareResult(id, link) = "true"
  THEN /\ inbox' = PeerSend(id, JSONStringify(Envelope(link, t)))
       /\ sent' = IF peers[id].remote = Foreign THEN sent
                  ELSE [sent EXCEPT ![id] = Append(@, link)]
  ELSE UNCHANGED << inbox, sent >>

shareLink(id, link, t) ==
  /\ ShareCount < MaxShares
  /\ lastOp' = Op("shareLink", id, ShareResult(id, link))
  /\ ShareEffect(id, link, t)
  /\ UNCHANGED << connections, linkHandler, statusHandler, peers,
                  uiConnections, isP2PSupported, delivered, notified >>
  /\ UNCHANGED page

getConnectionCode_AnyRole(id) ==
  IF \/ ~Has(connections, id)
     \/ ~Truthy(Conn(connections, id).connectionCode)
  THEN JNull
  ELSE Conn(connections, id).connectionCode
getConnectionCode_Undefined(id) ==
  IF ~Has(connections, id) THEN Undef
  ELSE IF \/ ~Conn(connections, id).isInitiator
          \/ ~Truthy(Conn(connections, id).connectionCode)
  THEN JNull
  ELSE Conn(connections, id).connectionCode
getConnectionCode(id) ==
  IF \/ ~Has(connections, id)
     \/ ~Conn(connections, id).isInitiator
     \/ ~Truthy(Conn(connections, id).connectionCode)
  THEN JNull
  ELSE Conn(connections, id).connectionCode

getConnections == connections

\* the service's part of closeConnection(id); ui is the screen's list when
\* the call returns
CloseEffect(id, ui) ==
  IF Has(connections, id)
  THEN /\ peers' = PeerDestroy(peers, id)
       /\ connections' = AfterDestroyConns(MapDelete(connections, id), id, peers[id].alive)
       /\ notified' = AfterDestroyLog(MapDelete(connections, id), notified, id,
                                      peers[id].alive)
       /\ uiConnections' = AfterDestroyUi(MapDelete(connections, id), ui, id,
                                          peers[id].alive)
  ELSE /\ UNCHANGED << peers, connections, notified >>
       /\ uiConnections' = ui

\* lastOp also records whether closeConnection found the id in the map
closeConnection(id) ==
  /\ lastOp' = [Op("closeConnection", id, "void") EXCEPT
                  !.data = Str(IF Has(connections, id) THEN "found" ELSE "absent")]
  /\ CloseEffect(id, uiConnections)
  /\ UNCHANGED << linkHandler, statusHandler, inbox, isP2PSupported, sent, delivered >>
  /\ UNCHANGED page

\* the service's part of destroy(): the close events come after the map is
\* cleared, and their handlers find no connection
DestroyEffect ==
  /\ peers' = [p \in PeerIds |->
        IF Has(connections, p) THEN PeerDestroy(peers, p)[p] ELSE peers[p]]
  /\ connections' = MapClear(connections)

destroy ==
  /\ lastOp' = Op("destroy", 0, "void")
  /\ DestroyEffect
  /\ UNCHANGED << linkHandler, statusHandler, inbox, uiConnections, isP2PSupported, sent,
                  delivered, notified >>
  /\ UNCHANGED page

\* this.onLinkReceived = handler / this.onConnectionStatusChange = handler:
\* the field after the assignment
Register_KeepFirst(current, h) == IF current = NoHandler THEN h ELSE current
Register(current, h) == h

\* lastOp also records the handler that was passed and the one it found
onLinkReceived(h) ==
  /\ h # linkHandler
  /\ linkHandler' = Register(linkHandler, h)
  /\ lastOp' = [Op("onLinkReceived", 0, "void") EXCEPT !.data = [handler |-> h, replaced |-> linkHandler]]
  /\ UNCHANGED << connections, statusHandler, peers, inbox, uiConnections, isP2PSupported,
                  sent, delivered, notified >>
  /\ UNCHANGED page

onConnectionStatusChange(h) ==
  /\ h # statusHandler
  /\ statusHandler' = Register(statusHandler, h)
  /\ lastOp' = [Op("onConnectionStatusChange", 0, "void") EXCEPT !.data = [handler |-> h, replaced |-> statusHandler]]
  /\ UNCHANGED << connections, linkHandler, peers, inbox, uiConnections, isP2PSupported,
                  sent, delivered, notified >>
  /\ UNCHANGED page

(***************************************************************************)
(* The environment: a remote peer that is not this program                 *)
(***************************************************************************)
ForeignLink == Obj([id |-> Str("f"), title |-> Str("F"), expiresAt |-> Iso(9),
                    createdAt |-> Iso(1)])
\* texts a remote peer can put on the channel
ForeignPayloads ==
  { Garbage,
    JSONStringify(JNull),
    JSONStringify(Obj([type |-> Str("link-share"), link |-> ForeignLink])),
    JSONStringify(Obj([type |-> Str("other"), link |-> ForeignLink])),
    JSONStringify(Obj([type |-> Str("link-share")])),
    JSONStringify(Obj([type |-> Str("link-share"),
                       link |-> Obj([id |-> Str("f"), createdAt |-> Iso(1)])])),
    JSONStringify(Obj([type |-> Str("link-share"),
                       link |-> Spread(ForeignLink, [expiresAt |-> Str("soon")])])) }

\* peer.on('data') with a text from a remote peer outside the model
PeerOnForeignData(p, text) ==
  /\ p \in PeerIds
  /\ peers[p].alive
  /\ peers[p].chan = "open"
  /\ peers[p].remote = Foreign
  /\ lastOp' = DataEvent(p, LinkInvoked(text), text)
  /\ UNCHANGED << connections, linkHandler, statusHandler, peers, inbox,
                  uiConnections, isP2PSupported, sent, delivered, notified >>
  /\ UNCHANGED page

(***************************************************************************)
(* The P2PSharing screen: its effect and its button handlers               *)
(***************************************************************************)
\* what the screen keeps of a connection object it was handed
UiEntry(id) == [id |-> id, isConnected |-> FALSE]
UiHas(ui, id) == \E i \in 1..Len(ui) : ui[i].id = id
\* the connections listed under Connected Peers, each with its Share button
UiConnected(ui, id) == \E i \in 1..Len(ui) : ui[i].id = id /\ ui[i].isConnected
UiRemove(ui, id) == SelectSeq(ui, LAMBDA c : c.id # id)

\* the first run of the effect: the WebRTC check, and the registration of the
\* screen's handlers if the browser passes it
uiMount(supported) ==
  /\ isP2PSupported = "null"
  /\ isP2PSupported' = IF supported THEN "true" ELSE "false"
  /\ linkHandler' = IF supported THEN UiHandler ELSE linkHandler
  /\ statusHandler' = IF supported THEN UiHandler ELSE statusHandler
  /\ lastOp' = UiOp("ui.mount", 0, "void", Undef)
  /\ UNCHANGED << connections, peers, inbox, uiConnections, sent, delivered, notified >>
  /\ UNCHANGED page

\* a later run of the effect, after the parent rendered again with a new
\* onLinkReceived: the cleanup of the previous run, then the registration
uiEffect ==
  /\ isP2PSupported = "true"
  /\ DestroyEffect
  /\ linkHandler' = UiHandler
  /\ statusHandler' = UiHandler
  /\ lastOp' = UiOp("ui.effect", 0, "void", Undef)
  /\ UNCHANGED << inbox, uiConnections, isP2PSupported, sent, delivered, notified >>
  /\ UNCHANGED page

uiCreateConnection ==
  IF isP2PSupported # "true"
  THEN /\ lastOp' = UiOp("ui.createConnection", 0, "unsupported", Undef)
       /\ UNCHANGED << connections, linkHandler, statusHandler, peers, inbox,
                       uiConnections, isP2PSupported, sent, delivered, notified, page >>
  ELSE /\ Len(peers) < MaxConns
       /\ CreateEffect
       /\ uiConnections' = Append(uiConnections, UiEntry(generateConnectionId))
       /\ lastOp' = UiOp("ui.createConnection", generateConnectionId, "created", Undef)
       /\ UNCHANGED << linkHandler, statusHandler, isP2PSupported, page >>

\* the text of the code field: empty, not JSON, or JSON text
EmptyText == [empty |-> 0]
UiTexts ==
  {EmptyText, Garbage}
    \cup {getConnectionCode(id) : id \in {q \in PeerIds : getConnectionCode(q) # JNull}}
    \cup {JSONStringify(v) :
            v \in {ForeignOffer, ForeignAnswer, JNull, Num(5), Obj([type |-> Str("offer")])}}

\* how the screen's joinConnection ends on the text of the code field; the
\* try block catches what JSON.parse and the service throw
UiJoinResult_Uncaught(text) ==
  IF isP2PSupported # "true" THEN "unsupported"
  ELSE IF text = EmptyText THEN "required"
  ELSE IF ParseThrows(text) THEN "throw"
  ELSE IF JoinThrows(JSONParse(text)) THEN "throw"
  ELSE "joined"
UiJoinResult(text) ==
  IF isP2PSupported # "true" THEN "unsupported"
  ELSE IF text = EmptyText THEN "required"
  ELSE IF ParseThrows(text) THEN "failed"
  ELSE IF JoinThrows(JSONParse(text)) THEN "failed"
  ELSE "joined"

uiJoinConnection(text) ==
  /\ Len(peers) < MaxConns
  /\ IF UiJoinResult(text) = "joined"
     THEN /\ JoinEffect(JSONParse(text), Append(uiConnections, UiEntry(generateConnectionId)))
          /\ lastOp' = UiOp("ui.joinConnection", generateConnectionId, "joined", text)
     ELSE /\ lastOp' = UiOp("ui.joinConnection", 0, UiJoinResult(text), text)
          /\ UNCHANGED << connections, peers, inbox, uiConnections, sent, delivered,
                          notified >>
  /\ UNCHANGED << linkHandler, statusHandler, isP2PSupported >>
  /\ UNCHANGED page

\* the Share button of a connection listed as connected, with a link selected
uiShareLink(id, link, t) ==
  /\ UiConnected(uiConnections, id)
  /\ ShareCount < MaxShares
  /\ ShareEffect(id, link, t)
  /\ lastOp' = UiOp("ui.shareLink", id, ShareResult(id, link), Undef)
  /\ UNCHANGED << connections, linkHandler, statusHandler, peers,
                  uiConnections, isP2PSupported, delivered, notified >>
  /\ UNCHANGED page

\* the Close button of a listed connection
uiCloseConnection(id) ==
  /\ UiHas(uiConnections, id)
  /\ CloseEffect(id, UiRemove(uiConnections, id))
  /\ lastOp' = UiOp("ui.closeConnection", id, "void", Undef)
  /\ UNCHANGED << linkHandler, statusHandler, inbox, isP2PSupported, sent, delivered >>
  /\ UNCHANGED page

ConnIds == 1..MaxConns

Next ==
  \/ createConnection
  \/ \E data \in SignalInputs : joinConnection(data)
  \/ \E p \in ConnIds : \E data \in SignalInputs : signalPeer(p, data)
  \/ \E id \in ConnIds : \E link \in Links : \E t \in Times : shareLink(id, link, t)
  \/ \E id \in ConnIds : closeConnection(id)
  \/ destroy
  \/ \E h \in Handlers : onLinkReceived(h)
  \/ \E h \in Handlers : onConnectionStatusChange(h)
  \/ \E p \in ConnIds : PeerOnSignal(p)
  \/ \E p \in ConnIds : PeerOnConnect(p)
  \/ \E p \in ConnIds : PeerOnData(p)
  \/ \E p \in ConnIds : TransportDrop(p)
  \/ \E p \in ConnIds : PeerOnClose(p)
  \/ \E p \in ConnIds : PeerOnError(p)
  \/ \E p \in ConnIds : \E text \in ForeignPayloads : PeerOnForeignData(p, text)

Spec == Init /\ [][Next]_vars

\* the data channel is reliable: a text that has arrived raises its data event
FairSpec == Spec /\ \A p \in ConnIds : WF_vars(PeerOnData(p))

\* the page: the service is driven by the P2PSharing screen alone, and every
\* remote peer is outside the model
UINext ==
  \/ \E supported \in BOOLEAN : uiMount(supported)
  \/ uiEffect
  \/ uiCreateConnection
  \/ \E text \in UiTexts : uiJoinConnection(text)
  \/ \E id \in ConnIds : \E link \in Links : \E t \in Times : uiShareLink(id, link, t)
  \/ \E id \in ConnIds : uiCloseConnection(id)
  \/ \E p \in ConnIds : PeerOnSignal(p)
  \/ \E p \in ConnIds : PeerOnConnect(p)
  \/ \E p \in ConnIds : TransportDrop(p)
  \/ \E p \in ConnIds : PeerOnClose(p)
  \/ \E p \in ConnIds : PeerOnError(p)
  \/ \E p \in ConnIds : \E text \in ForeignPayloads : PeerOnForeignData(p, text)

UISpec == Init /\ [][UINext]_vars

\* the codes a page can be given when codes exposed by a registry are the
\* only exchange: those of getConnectionCode here, and the offer exposed by
\* the registry of a page outside the model
ExposedCodes ==
  {JSONParse(getConnectionCode(id)) : id \in {q \in PeerIds : getConnectionCode(q) # JNull}}
    \cup {ForeignOffer}

\* negotiation through the service's operations alone, with no close, no
\* destroy and no transport failure; the transport delivers the events it
\* has to deliver, and the caller keeps calling shareLink
NegotiationNext ==
  \/ createConnection
  \/ \E data \in ExposedCodes : joinConnection(data)
  \/ \E id \in ConnIds : \E link \in Links : \E t \in Times : shareLink(id, link, t)
  \/ \E h \in Handlers : onLinkReceived(h)
  \/ \E h \in Handlers : onConnectionStatusChange(h)
  \/ \E p \in ConnIds : PeerOnSignal(p)
  \/ \E p \in ConnIds : PeerOnConnect(p)
  \/ \E p \in ConnIds : \E text \in ForeignPayloads : PeerOnForeignData(p, text)

NegotiationSpec ==
  /\ Init
  /\ [][NegotiationNext]_vars
  /\ \A p \in ConnIds : WF_vars(PeerOnSignal(p)) /\ WF_vars(PeerOnConnect(p))
  /\ WF_vars(\E id \in ConnIds : \E link \in Links : \E t \in Times : shareLink(id, link, t))

\* the handlers a caller of the service alone can register
AllHandlers == {"h1", "h2"}

\* the reads of the registry, which record what they returned
queryConnections ==
  /\ lastOp' = [Op("getConnections", 0, "array") EXCEPT
                  !.data = [i \in 1..Len(getConnections) |-> getConnections[i].id]]
  /\ UNCHANGED << connections, linkHandler, statusHandler, peers, inbox, uiConnections,
                  isP2PSupported, sent, delivered, notified >>
  /\ UNCHANGED page

queryConnectionCode(id) ==
  /\ lastOp' = [Op("getConnectionCode", id, "value") EXCEPT !.data = getConnectionCode(id)]
  /\ UNCHANGED << connections, linkHandler, statusHandler, peers, inbox, uiConnections,
                  isP2PSupported, sent, delivered, notified >>
  /\ UNCHANGED page

\* the service used through its operations by a caller that registers and
\* replaces handlers and reads the registry; the peers that connect are
\* those whose remote side is outside the model
ApiNext ==
  \/ createConnection
  \/ \E data \in ExposedCodes : joinConnection(data)
  \/ \E id \in ConnIds : closeConnection(id)
  \/ \E h \in AllHandlers : onLinkReceived(h)
  \/ \E h \in AllHandlers : onConnectionStatusChange(h)
  \/ queryConnections
  \/ \E id \in ConnIds : queryConnectionCode(id)
  \/ \E p \in ConnIds : PeerOnSignal(p)
  \/ \E p \in ConnIds : PeerOnConnect(p)
  \/ \E p \in ConnIds : TransportDrop(p)
  \/ \E p \in ConnIds : PeerOnClose(p)
  \/ \E p \in ConnIds : \E text \in ForeignPayloads : PeerOnForeignData(p, text)

ApiSpec == Init /\ [][ApiNext]_vars

\* the service with a status subscriber that may close the connection it
\* is told about; the peers that connect are those whose remote side is
\* outside the model
ReentrantNext ==
  \/ createConnection
  \/ \E data \in ExposedCodes : joinConnection(data)
  \/ \E id \in ConnIds : closeConnection(id)
  \/ \E h \in Handlers : onLinkReceived(h)
  \/ \E h \in Handlers \cup {ClosingHandler} : onConnectionStatusChange(h)
  \/ \E p \in ConnIds : PeerOnSignal(p)
  \/ \E p \in ConnIds : PeerOnConnect(p)
  \/ \E p \in ConnIds : TransportDrop(p)
  \/ \E p \in ConnIds : PeerOnClose(p)
  \/ \E p \in ConnIds : PeerOnError(p)
  \/ \E p \in ConnIds : \E text \in ForeignPayloads : PeerOnForeignData(p, text)

ReentrantSpec == Init /\ [][ReentrantNext]_vars

(***************************************************************************)
(* The Index page: createLink and deleteLink                               *)
(***************************************************************************)
\* the service and the screen are left alone by the page's link handlers
ServiceVars ==
  << connections, linkHandler, statusHandler, peers, inbox, uiConnections,
     isP2PSupported, sent, delivered, notified >>

\* Date.now().toString() of a createLink that resumes: calls resume at
\* least a second apart, so the id is new
NewLinkId == page.made + 1

\* links.filter(link => link.id !== id)
FilterLinks(links, id) == SelectSeq(links, LAMBDA l : l # id)
\* [newLink, ...links], with the links the pending call closed over
PrependLink(id, captured) == << id >> \o captured

\* a click on Create Link (the button is disabled while isCreating): with a
\* field missing a toast and nothing else; otherwise isCreating is set and
\* the call waits for its request, holding the links of this render
indexCreateLink(valid) ==
  /\ ~page.isCreating
  /\ page.made < MaxLinks
  /\ page' = IF valid
             THEN [page EXCEPT !.isCreating = TRUE, !.captured = page.links]
             ELSE page
  /\ lastOp' = UiOp("index.createLink", 0, IF valid THEN "pending" ELSE "missing", Undef)
  /\ UNCHANGED ServiceVars

\* the request of the pending createLink is over: the call resumes
indexCreateResume ==
  /\ page.isCreating
  /\ page' = [page EXCEPT !.links = PrependLink(NewLinkId, page.captured),
                          !.isCreating = FALSE,
                          !.captured = << >>,
                          !.made = NewLinkId]
  /\ lastOp' = UiOp("index.createLink", NewLinkId, "created", Undef)
  /\ UNCHANGED ServiceVars

\* the Delete button of a listed link
indexDeleteLink(id) ==
  /\ \E i \in 1..Len(page.links) : page.links[i] = id
  /\ page' = [page EXCEPT !.links = FilterLinks(page.links, id),
                          !.deleted = @ \cup {id}]
  /\ lastOp' = UiOp("index.deleteLink", id, "void", Undef)
  /\ UNCHANGED ServiceVars

LinkIdsOfPage == 1..MaxLinks

IndexNext ==
  \/ \E valid \in BOOLEAN : indexCreateLink(valid)
  \/ indexCreateResume
  \/ \E id \in LinkIdsOfPage : indexDeleteLink(id)

IndexSpec == Init /\ [][IndexNext]_vars

(***************************************************************************)
(* Properties                                                              *)
(***************************************************************************)
\* the id is unknown to the service, its connection is still negotiating
\* (no connect event yet), or its connection has been closed (the peer is
\* destroyed: by closeConnection, by destroy or after its close event)
Unavailable(id) ==
  \/ ~Has(connections, id)
  \/ peers[id].chan = "none"
  \/ ~peers[id].alive

\* C1: a shareLink(id, link) step taken while id is unknown, negotiating or
\* closed returns false and puts nothing on any channel
C1_ShareRefused ==
  [][\A id \in ConnIds :
       (lastOp'.op = "shareLink" /\ lastOp'.id = id /\ Unavailable(id))
         => (lastOp'.ret = "false" /\ inbox' = inbox /\ sent' = sent)]_vars

\* shareLink returned false for a connection that had reported connected and
\* was then closed with closeConnection
C1_Witness ==
  /\ lastOp.op = "shareLink"
  /\ lastOp.ret = "false"
  /\ lastOp.id \in PeerIds
  /\ ~Has(connections, lastOp.id)
  /\ ~peers[lastOp.id].alive
  /\ notified[lastOp.id] = << TRUE >>

\* the peers p whose channel is open and whose remote end r is a peer of
\* this program
Pairs == {pr \in PeerIds \X PeerIds :
            /\ peers[pr[2]].alive
            /\ peers[pr[2]].chan = "open"
            /\ peers[pr[2]].remote = pr[1]}

\* C2: every link the data handler of the receiving side passed to the
\* registered onLinkReceived handler equals, in every field, the link that
\* was passed to shareLink on the sending side
C2_RoundTrip ==
  \A pr \in Pairs :
    \A i \in 1..Len(delivered[pr[2]]) :
      delivered[pr[2]][i].heard
        => /\ i <= Len(sent[pr[1]])
           /\ delivered[pr[2]][i].link = sent[pr[1]][i]

\* a received text that is a well-formed envelope: it parses, its type is
\* "link-share", and its link is an object whose expiresAt and createdAt are
\* present and parse to time values
WellFormed(text) ==
  /\ ~ParseThrows(text)
  /\ Get(JSONParse(text), "type") = Str("link-share")
  /\ IsObj(Get(JSONParse(text), "link"))
  /\ \A f \in {"expiresAt", "createdAt"} :
       /\ Get(Get(JSONParse(text), "link"), f) # Undef
       /\ IsDate(NewDate(Get(Get(JSONParse(text), "link"), f)))

\* C3: a data event whose text is not a well-formed envelope invokes no
\* handler
C3_MalformedRejected ==
  (lastOp.op = "data" /\ ~WellFormed(lastOp.data)) => lastOp.ret = NoHandler

\* C4: the screen's joinConnection on a text that is not JSON ends in a
\* reported failure, never in an exception, and leaves the service's
\* connections and the screen's list as they were
C4_UiJoinMalformed ==
  [][(lastOp'.op = "ui.joinConnection" /\ ParseThrows(lastOp'.data))
       => /\ lastOp'.ret \in {"failed", "required", "unsupported"}
          /\ (isP2PSupported = "true" /\ lastOp'.data = Garbage => lastOp'.ret = "failed")
          /\ getConnections' = getConnections
          /\ uiConnections' = uiConnections
          /\ peers' = peers]_vars

\* the screen, holding a connection, was given "not json" and reported the
\* failure
C4_Witness ==
  /\ lastOp.op = "ui.joinConnection"
  /\ lastOp.data = Garbage
  /\ lastOp.ret = "failed"
  /\ Len(connections) = 1
  /\ Len(uiConnections) = 1

\* C5: getConnectionCode(id) is null for every responder, and for an
\* initiator whose signal event has not fired; it turns from null to a code
\* only in the signal event of an initiator's own transport
C5_CodeInitiatorOnly ==
  /\ [](\A id \in ConnIds :
          /\ (Has(connections, id) /\ ~peers[id].initiator)
               => getConnectionCode(id) = JNull
          /\ (Has(connections, id) /\ peers[id].alive /\ ~peers[id].signalled)
               => getConnectionCode(id) = JNull
          /\ getConnectionCode(id) # JNull
               => /\ Has(connections, id)
                  /\ peers[id].initiator
                  /\ getConnectionCode(id) = JSONStringify(LocalSignal(id)))
  /\ [][\A id \in ConnIds :
          (getConnectionCode(id) = JNull /\ getConnectionCode(id)' # JNull)
            => (lastOp'.op = "signal" /\ lastOp'.id = id)]_vars

\* a responder whose transport has emitted its answer (the answer is stored
\* in the connection) and for which getConnectionCode is null, beside an
\* initiator whose code is available
C5_Witness ==
  \E x, y \in PeerIds :
    /\ Has(connections, y)
    /\ ~Conn(connections, y).isInitiator
    /\ peers[y].signalled
    /\ Truthy(Conn(connections, y).connectionCode)
    /\ getConnectionCode(y) = JNull
    /\ getConnectionCode(x) # JNull

\* C6: closeConnection(id) never throws; after it the id is absent from
\* getConnections(); called on an id that is already absent it changes nothing
C6_CloseIdempotent ==
  [][lastOp'.op = "closeConnection"
       => /\ lastOp'.ret = "void"
          /\ ~Has(getConnections', lastOp'.id)
          /\ ~Has(getConnections, lastOp'.id)
               => UNCHANGED << connections, linkHandler, statusHandler, peers, inbox,
                               uiConnections, isP2PSupported, sent, delivered,
                               notified >>]_vars

\* the second closeConnection of a connection that had reported connected
C6_Witness ==
  /\ lastOp.op = "closeConnection"
  /\ lastOp.data = Str("absent")
  /\ lastOp.id \in PeerIds
  /\ notified[lastOp.id] = << TRUE >>
  /\ ~Has(getConnections, lastOp.id)

\* C7: getConnections() holds no connection whose transport is closed
C7_NoClosedInRegistry ==
  \A i \in 1..Len(getConnections) : peers[getConnections[i].id].alive

\* connection y was made by joinConnection with the code of connection x
JoinedWith(x, y) ==
  /\ Has(connections, x) /\ Has(connections, y)
  /\ Conn(connections, x).isInitiator
  /\ ~Conn(connections, y).isInitiator
  /\ peers[y].remote = x

\* C8: once a connection was joined with the code of another, both of them
\* eventually are connected
C8_NegotiationCompletes ==
  \A x, y \in ConnIds :
    [](JoinedWith(x, y)
         => <>(/\ Has(connections, x) /\ Conn(connections, x).isConnected
               /\ Has(connections, y) /\ Conn(connections, y).isConnected))

\* the ids of a sequence of links
LinkIds(q) == [i \in 1..Len(q) |-> Get(q[i], "id")]
\* the ids of the links the data handler of peer p has built
DeliveredIds(p) == [i \in 1..Len(delivered[p]) |-> Get(delivered[p][i].link, "id")]
\* the ids of the links in the envelopes on their way to peer p
InFlightIds(p) ==
  [i \in 1..Len(inbox[p]) |-> Get(Get(JSONParse(inbox[p][i]), "link"), "id")]
IsPrefix(a, b) == Len(a) <= Len(b) /\ \A i \in 1..Len(a) : a[i] = b[i]

\* C9: on a connection whose two ends are open, every link of a shareLink
\* call that returned true is either still on its way or was given to the
\* data handler of the other end exactly once; a data event with a registered
\* handler invokes that handler, once; and a text on its way is delivered
\* unless the receiving end closes first
C9_ExactlyOnce ==
  /\ \A p \in ConnIds :
       [](p \in PeerIds /\ inbox[p] # << >>
            => <>(p \in PeerIds
                    /\ (inbox[p] = << >> \/ ~peers[p].alive \/ peers[p].chan # "open")))
  /\ [](\A pr \in Pairs :
          DeliveredIds(pr[2]) \o InFlightIds(pr[2]) = LinkIds(sent[pr[1]]))
  /\ [][\A p \in ConnIds :
          /\ (p \in PeerIds /\ delivered'[p] # delivered[p])
               => /\ lastOp'.op = "data" /\ lastOp'.id = p
                  /\ Len(delivered'[p]) = Len(delivered[p]) + 1
                  /\ inbox'[p] = Tail(inbox[p])
                  /\ delivered'[p][Len(delivered'[p])].heard = (linkHandler # NoHandler)
          /\ (lastOp'.op = "data" /\ lastOp'.id = p /\ WellFormed(lastOp'.data)
                /\ linkHandler # NoHandler)
               => lastOp'.ret = linkHandler]_vars

\* two shares were delivered to the registered handler of the other end and
\* nothing is left on the way
C9_Witness ==
  \E pr \in Pairs :
    /\ Len(sent[pr[1]]) = 2
    /\ Len(delivered[pr[2]]) = 2
    /\ \A i \in 1..2 : delivered[pr[2]][i].heard
    /\ inbox[pr[2]] = << >>
    /\ peers[pr[1]].alive

\* C10: the links given to onLinkReceived on one end of a connection are, in
\* order, a prefix of the links of the successful shareLink calls on the
\* other end
C10_Ordered ==
  \A pr \in Pairs : IsPrefix(DeliveredIds(pr[2]), LinkIds(sent[pr[1]]))

\* two different links were shared and the first of them was delivered to a
\* registered handler while the second is still on its way
C10_Witness ==
  \E pr \in Pairs :
    /\ Len(sent[pr[1]]) = 2
    /\ sent[pr[1]][1] # sent[pr[1]][2]
    /\ Len(delivered[pr[2]]) = 1
    /\ delivered[pr[2]][1].heard
    /\ Len(inbox[pr[2]]) = 1

\* C11: a data event whose text is not a well-formed envelope changes no
\* connection, no peer and no notification, and leaves the connection open;
\* a well-formed envelope that arrives next on the same connection is given
\* to the registered handler
C11_BadMessageNoEffect ==
  [][\A p \in ConnIds :
       /\ (lastOp'.op = "data" /\ lastOp'.id = p /\ ~WellFormed(lastOp'.data))
            => /\ lastOp'.ret \in Handlers \cup {UiHandler, NoHandler}
               /\ UNCHANGED << connections, linkHandler, statusHandler, peers, inbox,
                               uiConnections, isP2PSupported, sent, notified >>
               /\ peers'[p].alive
               /\ peers'[p].chan = "open"
       /\ (/\ lastOp.op = "data" /\ lastOp.id = p /\ ~WellFormed(lastOp.data)
           /\ lastOp'.op = "data" /\ lastOp'.id = p /\ WellFormed(lastOp'.data)
           /\ linkHandler # NoHandler)
            => lastOp'.ret = linkHandler]_vars

\* a text that is not JSON was handled on a connected connection whose
\* service has a link handler
C11_Witness ==
  /\ lastOp.op = "data"
  /\ lastOp.data = Garbage
  /\ Has(connections, lastOp.id)
  /\ Conn(connections, lastOp.id).isConnected
  /\ peers[lastOp.id].chan = "open"
  /\ linkHandler # NoHandler

\* the events of a peer
EventOps == {"signal", "connect", "data", "drop", "close", "error"}

C13_ErrorTerminates ==
  /\ (lastOp.op = "error" /\ Has(connections, lastOp.id))
       => /\ ~Conn(connections, lastOp.id).isConnected
          /\ ~peers[lastOp.id].alive
          /\ lastOp.ret = statusHandler
          /\ statusHandler # NoHandler
               => /\ notified[lastOp.id] # << >>
                  /\ notified[lastOp.id][Len(notified[lastOp.id])] = FALSE
  /\ \A id \in PeerIds : \A link \in Links :
       ~peers[id].alive => ShareResult(id, link) = "false"

\* the peer of a connection that had reported connected failed, and the
\* failure was reported
C13_Witness ==
  /\ lastOp.op = "error"
  /\ Has(connections, lastOp.id)
  /\ lastOp.ret # NoHandler
  /\ notified[lastOp.id] = << TRUE, FALSE >>

\* C14: for every connection whose connected notification reached the
\* subscriber and whose peer is now closed, whatever closed it, the
\* subscriber got (id, false) exactly once
C14_ClosedNotifiedOnce ==
  \A p \in PeerIds :
    (~peers[p].alive /\ notified[p] # << >> /\ notified[p][1] = TRUE)
      => notified[p] = << TRUE, FALSE >>

\* C15: the status handler is invoked for a connection with true at most
\* once and never after false; a connection becomes connected only in the
\* connect event of a peer that never was connected, a connected connection
\* has a live peer, and a destroyed peer stays destroyed
C15_Monotonic ==
  /\ [](\A p \in PeerIds :
          /\ notified[p] \in {<< >>, << TRUE >>, << FALSE >>, << TRUE, FALSE >>}
          /\ (Has(connections, p) /\ Conn(connections, p).isConnected)
               => /\ peers[p].alive
                  /\ \A i \in 1..Len(notified[p]) : notified[p][i] = TRUE)
  /\ [][\A p \in ConnIds :
          /\ (/\ Has(connections', p) /\ Conn(connections', p).isConnected
              /\ ~(Has(connections, p) /\ Conn(connections, p).isConnected))
               => /\ lastOp'.op = "connect" /\ lastOp'.id = p
                  /\ peers[p].chan = "none"
          /\ (p \in PeerIds /\ ~peers[p].alive) => ~peers'[p].alive
          /\ (p \in PeerIds /\ peers[p].chan # "none") => peers'[p].chan # "none"]_vars

\* a connection that was reported connected and then closed by its peer,
\* still stored and not connected
C15_Witness ==
  \E p \in PeerIds :
    /\ notified[p] = << TRUE, FALSE >>
    /\ Has(connections, p)
    /\ ~Conn(connections, p).isConnected
    /\ lastOp.op \notin {"close", "error"}

\* C16: when destroy() has returned, getConnections() is empty, every peer
\* is destroyed, and for every id shareLink returns false and
\* getConnectionCode returns null; at any time a live peer belongs to a
\* stored connection
C16_DestroyClears ==
  /\ lastOp.op = "destroy"
       => /\ getConnections = << >>
          /\ \A p \in PeerIds : ~peers[p].alive
          /\ \A id \in ConnIds :
               /\ getConnectionCode(id) = JNull
               /\ \A link \in Links : ShareResult(id, link) = "false"
  /\ \A p \in PeerIds : peers[p].alive => Has(connections, p)

\* destroy() was called with two connections stored, one of them connected
C16_Witness ==
  /\ lastOp.op = "destroy"
  /\ Len(peers) = 2
  /\ \E p \in PeerIds : notified[p] = << TRUE >>
  /\ \E p \in PeerIds : notified[p] = << >> /\ peers[p].initiator

\* C17: for an id that is not in the map, getConnectionCode gives null and
\* shareLink gives false; a shareLink or closeConnection call with such an
\* id returns normally, changes no connection, peer or queue and invokes no
\* handler
C17_UnknownId ==
  /\ [](\A id \in ConnIds :
          ~Has(connections, id)
            => /\ getConnectionCode(id) = JNull
               /\ \A link \in Links : ShareResult(id, link) = "false")
  /\ [][(lastOp'.op \in {"shareLink", "closeConnection"} /\ ~Has(connections, lastOp'.id))
          => /\ lastOp'.ret = (IF lastOp'.op = "shareLink" THEN "false" ELSE "void")
             /\ UNCHANGED << connections, linkHandler, statusHandler, peers, inbox,
                             uiConnections, isP2PSupported, sent, delivered,
                             notified >>]_vars

\* shareLink was called with an id the service never generated, while a
\* connected connection and both handlers exist
C17_Witness ==
  /\ lastOp.op = "shareLink"
  /\ lastOp.ret = "false"
  /\ lastOp.id \notin PeerIds
  /\ linkHandler # NoHandler
  /\ statusHandler # NoHandler
  /\ \E p \in PeerIds : Has(connections, p) /\ Conn(connections, p).isConnected

\* the texts of a remote peer from which the data handler builds a link
C18_LinkTexts == {text \in ForeignPayloads : AcceptsData(text)}

C19_Ids(m) == [i \in 1..Len(m) |-> m[i].id]
C19_In(ids, id) == \E i \in 1..Len(ids) : ids[i] = id

\* C19: getConnections lists the connections of the registry in the order
\* they were created (ids are generated in increasing order): every step
\* keeps the connections it does not remove in their relative order and puts
\* a new one last; a getConnections or getConnectionCode call returns the
\* list or the code and changes nothing of the service, its peers or queues
C19_ReadOnlyOrdered ==
  /\ [](\A i, j \in 1..Len(getConnections) :
          i < j => getConnections[i].id < getConnections[j].id)
  /\ [][LET old == C19_Ids(connections)
            new == C19_Ids(connections')
        IN  /\ SelectSeq(new, LAMBDA id : C19_In(old, id))
                 = SelectSeq(old, LAMBDA id : C19_In(new, id))
            /\ \A i, j \in 1..Len(new) :
                 (i < j /\ ~C19_In(old, new[i])) => ~C19_In(old, new[j])]_vars
  /\ [][lastOp'.op \in {"getConnections", "getConnectionCode"}
          => /\ UNCHANGED << connections, linkHandler, statusHandler, peers, inbox,
                             uiConnections, isP2PSupported, sent, delivered, notified >>
             /\ lastOp'.op = "getConnections" => lastOp'.data = C19_Ids(connections)
             /\ lastOp'.op = "getConnectionCode"
                  => lastOp'.data = getConnectionCode(lastOp'.id)]_vars

\* getConnections returned a created connection followed by a joined one,
\* after the code of the first had been produced
C19_Witness ==
  /\ lastOp.op = "getConnections"
  /\ lastOp.data = << 1, 2 >>
  /\ Conn(connections, 1).isInitiator
  /\ ~Conn(connections, 2).isInitiator
  /\ getConnectionCode(1) # JNull

\* C20: when createConnection has returned, before any event of the new
\* peer, the connection it returned is the last one of getConnections, is an
\* initiator, is not connected and has no code; its peer is alive with no
\* signal emitted and no channel, and no status was notified for it
C20_CreateNegotiating ==
  lastOp.op = "createConnection"
    => /\ lastOp.ret = "connection"
       /\ lastOp.id = Len(peers)
       /\ Has(connections, lastOp.id)
       /\ getConnections[Len(getConnections)].id = lastOp.id
       /\ Conn(connections, lastOp.id).isInitiator
       /\ ~Conn(connections, lastOp.id).isConnected
       /\ Conn(connections, lastOp.id).connectionCode = Undef
       /\ getConnectionCode(lastOp.id) = JNull
       /\ peers[lastOp.id].alive
       /\ peers[lastOp.id].initiator
       /\ ~peers[lastOp.id].signalled
       /\ peers[lastOp.id].chan = "none"
       /\ notified[lastOp.id] = << >>

\* createConnection returned a second connection while the first one was
\* connected
C20_Witness ==
  /\ lastOp.op = "createConnection"
  /\ lastOp.id = 2
  /\ Has(connections, 1)
  /\ Conn(connections, 1).isConnected
  /\ Has(connections, 2)
  /\ ~Conn(connections, 2).isConnected

\* C21: a closeConnection step notifies no (id, true) and delivers no link,
\* and once a connection that was made is out of the map it stays out, no
\* signal, connect or data event of its peer runs, no status is notified
\* for its id and no link of it reaches the link handler, whatever was
\* pending when it was closed
C21_CancelSafe ==
  [][/\ lastOp'.op = "closeConnection"
          => /\ delivered' = delivered
             /\ \A id \in PeerIds :
                  Len(notified'[id]) > Len(notified[id])
                    => notified'[id] = Append(notified[id], FALSE)
     /\ \A id \in PeerIds :
          ~Has(connections, id)
            => /\ ~Has(connections', id)
               /\ delivered'[id] = delivered[id]
               /\ notified'[id] = notified[id]
               /\ ~(lastOp'.op \in {"signal", "connect", "data"} /\ lastOp'.id = id)]_vars

\* a connection was closed by the page while a link sent to it was
\* still waiting for its data event, and the page went on sharing
C21_Witness ==
  /\ lastOp.op = "shareLink"
  /\ linkHandler # NoHandler
  /\ statusHandler # NoHandler
  /\ \E id \in PeerIds :
       /\ ~Has(connections, id)
       /\ inbox[id] # << >>
       /\ delivered[id] = << >>
       /\ notified[id] = << TRUE >>

\* C22: once a connection has a code no signal event of its peer runs again
\* and, as long as the connection is in the map, the stored code and what
\* getConnectionCode returns for it stay the same
C22_CodeSingleShot ==
  [][\A id \in PeerIds :
       (Has(connections, id) /\ Has(connections', id))
         => /\ Conn(connections, id).connectionCode # Undef
                 => /\ Conn(connections', id).connectionCode
                         = Conn(connections, id).connectionCode
                    /\ ~(lastOp'.op = "signal" /\ lastOp'.id = id)
            /\ getConnectionCode(id) # JNull
                 => getConnectionCode(id)' = getConnectionCode(id)]_vars

\* an initiator whose code had been handed out connected, and the code is
\* still returned
C22_Witness ==
  /\ lastOp.op = "connect"
  /\ Has(connections, lastOp.id)
  /\ Conn(connections, lastOp.id).isInitiator
  /\ Conn(connections, lastOp.id).isConnected
  /\ getConnectionCode(lastOp.id) # JNull
  /\ getConnectionCode(lastOp.id) = JSONStringify(LocalSignal(lastOp.id))

\* C23: a close or error event whose (id, false) notification goes to a
\* subscriber that calls closeConnection(id) from inside it notifies
\* (id, false) once, leaves the peer destroyed and the id out of the map
\* with every other connection as it was, and nothing is notified for the
\* id afterwards
C23_ReentrantClose ==
  [][/\ (lastOp'.op \in {"close", "error"} /\ lastOp'.ret = ClosingHandler)
          => /\ ~Has(connections', lastOp'.id)
             /\ connections' = MapDelete(connections, lastOp'.id)
             /\ ~peers'[lastOp'.id].alive
             /\ notified' = [notified EXCEPT ![lastOp'.id] = Append(@, FALSE)]
     /\ \A id \in PeerIds :
          ~Has(connections, id) => notified'[id] = notified[id]]_vars

\* the transport closed a connected connection while another connection was
\* in the map, and the subscriber closed it from inside the notification
C23_Witness ==
  /\ lastOp.op = "close"
  /\ lastOp.ret = ClosingHandler
  /\ notified[lastOp.id] = << TRUE, FALSE >>
  /\ ~Has(connections, lastOp.id)
  /\ Len(connections) = 1

\* C24: a shareLink call returns true only for a connection in the map
\* whose peer is alive with its channel open, and then puts exactly one
\* envelope, last, on that channel; for a connection that is absent, not yet
\* connected, closed, or whose channel went down before the close handler
\* ran, it returns false or throws and puts nothing on any channel
C24_SendNotSilent ==
  [][lastOp'.op = "shareLink"
       => LET id == lastOp'.id
              open == /\ Has(connections, id)
                      /\ peers[id].alive
                      /\ peers[id].chan = "open"
          IN  /\ lastOp'.ret = "true"
                   => /\ open
                      /\ Conn(connections, id).isConnected
                      /\ peers[id].remote = Foreign => inbox' = inbox
                      /\ (peers[id].remote \in PeerIds /\ peers[peers[id].remote].alive)
                           => \E link \in Links : \E t \in Times :
                                inbox' = [inbox EXCEPT ![peers[id].remote] =
                                            Append(@, JSONStringify(Envelope(link, t)))]
              /\ ~open
                   => /\ lastOp'.ret \in {"false", "throw"}
                      /\ inbox' = inbox
                      /\ sent' = sent]_vars

\* shareLink threw: the channel of a connection still marked connected had
\* gone down and its close handler had not run yet
C24_Witness ==
  /\ lastOp.op = "shareLink"
  /\ lastOp.ret = "throw"
  /\ Has(connections, lastOp.id)
  /\ Conn(connections, lastOp.id).isConnected
  /\ peers[lastOp.id].alive
  /\ peers[lastOp.id].chan = "closed"

\* C25: for every connection whose session has ended (its peer is
\* destroyed, after closeConnection, destroy, a close by the remote side or
\* a transport failure) getConnectionCode returns null
C25_CodeExpires ==
  \A id \in PeerIds : ~peers[id].alive => getConnectionCode(id) = JNull

\* C26: a createConnection or joinConnection call that returns a connection
\* appends one entry to the map under an id that no connection or peer
\* had, and leaves every entry that was in the map, and every existing
\* peer with its queue and its notifications, as it was
C26_AddsOneEntry ==
  [][(lastOp'.op \in {"createConnection", "joinConnection"} /\ lastOp'.ret = "connection")
       => /\ Len(connections') = Len(connections) + 1
          /\ SubSeq(connections', 1, Len(connections)) = connections
          /\ connections'[Len(connections')].id = lastOp'.id
          /\ ~Has(connections, lastOp'.id)
          /\ lastOp'.id \notin PeerIds
          /\ \A p \in PeerIds :
               /\ peers'[p] = peers[p]
               /\ inbox'[p] = inbox[p]
               /\ notified'[p] = notified[p]]_vars

\* joinConnection added a second connection next to a connected initiator
\* whose code is still available
C26_Witness ==
  /\ lastOp.op = "joinConnection"
  /\ lastOp.ret = "connection"
  /\ lastOp.id = 2
  /\ Len(connections) = 2
  /\ Conn(connections, 1).isConnected
  /\ getConnectionCode(1) # JNull

\* C27: every connection in the screen's list is in the map of the
\* service, and is shown connected exactly when the map says it is
C27_UiListDerived ==
  \A i \in 1..Len(uiConnections) :
    /\ Has(connections, uiConnections[i].id)
    /\ uiConnections[i].isConnected = Conn(connections, uiConnections[i].id).isConnected

\* C28: when a received link has been handed to the page and the screen's
\* effect runs again for the parent's new render, no connection is removed
\* from the map and no peer is destroyed
C28_RerenderKeepsConnections ==
  [][(/\ lastOp.op = "data"
      /\ lastOp.ret = UiHandler
      /\ lastOp'.op = "ui.effect")
       => /\ connections' = connections
          /\ \A p \in PeerIds : peers'[p].alive = peers[p].alive]_vars

\* the text of the code field parses, and what it parses to is not a
\* negotiation payload: null, or a value without a session description
C29_InvalidPayload(text) ==
  /\ text # EmptyText
  /\ ~ParseThrows(text)
  /\ Throws(JSONParse(text)) \/ SignalInvalid(JSONParse(text))

\* C29: a Join Connection on a text that parses to something that is not a
\* negotiation payload ends as a failure shown to the user and leaves the
\* map of the service and the screen's list as they were
C29_InvalidJoinRejected ==
  [][(lastOp'.op = "ui.joinConnection" /\ C29_InvalidPayload(lastOp'.data))
       => /\ lastOp'.ret = "failed"
          /\ connections' = connections
          /\ uiConnections' = uiConnections]_vars

\* C30: no link that deleteLink removed is in the links list, and every
\* link createLink added and deleteLink did not remove is in it
C30_LinksConsistent ==
  /\ \A id \in page.deleted : \A i \in 1..Len(page.links) : page.links[i] # id
  /\ \A id \in 1..page.made :
       id \notin page.deleted => \E i \in 1..Len(page.links) : page.links[i] = id

====
